---- MODULE Spec2Model ----
(***************************************************************************)
(* Model of sentiment1.py: the module-level scorers and file extractor,   *)
(* and the SentimentAnalysisApp window with its four button handlers.     *)
(*                                                                         *)
(* Python strings are sequences of characters; "" is <<>>.  Python values  *)
(* that one attribute can hold with different types (None, a float, a      *)
(* str, a dict, a tuple) are tagged records, see None/Float/Str/Dict/Tuple.*)
(* Scores are integers in units of 1/scale of the library's float range.   *)
(***************************************************************************)
EXTENDS Integers, Sequences, FiniteSets, TLC

\* ------------------------------------------------------------------ bounds
\* longest text typed into the entry or read from a txt/csv file
MaxLen == 2
\* most pages of an uploaded pdf
MaxPages == 2
\* VADER scores are k/ScoreScale for k in 0..ScoreScale (compound: -ScoreScale..ScoreScale)
ScoreScale == 2
\* TextBlob polarity is k/PolarityScale for k in -PolarityScale..PolarityScale
PolarityScale == 1

\* ------------------------------------------------------------------ texts
Whitespace == {" "}
Chars == {" ", "a"}

TextsUpTo(n) == UNION {[1..k -> Chars] : k \in 0..n}
Texts == TextsUpTo(MaxLen)
\* the text of one pdf page: a single character
PageTexts == {<<c>> : c \in Chars}

RECURSIVE LStrip(_)
LStrip(s) == IF s = <<>> THEN s
             ELSE IF Head(s) \in Whitespace THEN LStrip(Tail(s)) ELSE s

RECURSIVE RStrip(_)
RStrip(s) == IF s = <<>> THEN s
             ELSE IF s[Len(s)] \in Whitespace THEN RStrip(SubSeq(s, 1, Len(s) - 1)) ELSE s

\* str.strip(): leading and trailing whitespace removed
Strip(s) == RStrip(LStrip(s))

\* ------------------------------------------------------------ Python values
None == [kind |-> "None"]
Float(x) == [kind |-> "float", num |-> x]
Str(m) == [kind |-> "str", msg |-> m]
Dict(m) == [kind |-> "dict", get |-> m]
Tuple(items) == [kind |-> "tuple", items |-> items]

IsNumber(v) == v.kind = "float"

\* bool(v) as `if v:` evaluates it
Truthy(v) == CASE v.kind = "None" -> FALSE
               [] v.kind = "dict" -> DOMAIN v.get # {}
               [] v.kind = "tuple" -> Len(v.items) > 0
               [] v.kind = "str" -> v.msg # ""
               [] v.kind = "float" -> v.num # 0

\* ------------------------------------------------------------------ scorers
\* the keys of the dict polarity_scores returns, in the order it inserts them
VaderKeys == <<"neg", "neu", "pos", "compound">>
KeySet == {VaderKeys[i] : i \in 1..Len(VaderKeys)}

\* what the VADER library can answer at resolution k: the three proportions
\* sum to 1 (or are all 0 for a text with no words), the compound score is 0
\* when no word carries sentiment and has the sign of the only sentiment present
CompoundRange(neg, pos, k) ==
    IF neg = 0 /\ pos = 0 THEN {0}
    ELSE IF neg = 0 THEN 1..k
    ELSE IF pos = 0 THEN -k..-1
    ELSE -k..k

VaderMaps(k) ==
    {[neg |-> 0, neu |-> 0, pos |-> 0, compound |-> 0]}
    \cup UNION {UNION {{[neg |-> neg, neu |-> k - neg - pos, pos |-> pos, compound |-> c] :
                           c \in CompoundRange(neg, pos, k)} :
                       pos \in 0..(k - neg)} :
                neg \in 0..k}

\* the library call of a scorer either raises (with message msg) or answers
VaderLib(k) == {[raises |-> TRUE, msg |-> "err"]}
               \cup {[raises |-> FALSE, scores |-> m] : m \in VaderMaps(k)}

TextBlobLib(k) == {[raises |-> TRUE, msg |-> "err"]}
                  \cup {[raises |-> FALSE, polarity |-> p, subjectivity |-> s] :
                            p \in -k..k, s \in 0..k}

analyze_sentiment_vader(lib) ==
    IF lib.raises THEN Tuple(<<None, Str(lib.msg)>>) ELSE Dict(lib.scores)

analyze_sentiment_textblob(lib) ==
    IF lib.raises THEN <<None, Str(lib.msg)>>
    ELSE <<Float(lib.polarity), Float(lib.subjectivity)>>

\* max(d, key=d.get): scan the keys in order, keep the first of the largest
RECURSIVE MaxKey_Last(_, _, _)
MaxKey_Last(m, i, best) ==
    IF i > Len(VaderKeys) THEN best
    ELSE MaxKey_Last(m, i + 1, IF m[VaderKeys[i]] >= m[best] THEN VaderKeys[i] ELSE best)

RECURSIVE MaxKey(_, _, _)
MaxKey(m, i, best) ==
    IF i > Len(VaderKeys) THEN best
    ELSE MaxKey(m, i + 1, IF m[VaderKeys[i]] > m[best] THEN VaderKeys[i] ELSE best)

OverallSentiment(m) == MaxKey(m, 2, VaderKeys[1])

TextBlobLabel_NoNeutral(p) == IF p >= 0 THEN "Positive" ELSE "Negative"

TextBlobLabel(p) == IF p > 0 THEN "Positive" ELSE IF p < 0 THEN "Negative" ELSE "Neutral"

\* ------------------------------------------------------------------ files
\* A file picked in the upload dialog: its extension, whether it can be opened
\* and parsed at all (open(), pd.read_csv, fitz.open), its parts (the text of a
\* txt file, the table dump df.to_string() renders for a csv, the page texts of
\* a pdf) and, for a pdf, the page whose load_page/get_text raises (0: none).
PageSeqs == UNION {[1..k -> PageTexts] : k \in 0..MaxPages}

Files ==
    {[type |-> ty, openable |-> TRUE, parts |-> <<t>>, badPage |-> 0] :
        ty \in {"txt", "csv"}, t \in Texts}
    \cup {[type |-> ty, openable |-> FALSE, parts |-> <<>>, badPage |-> 0] :
        ty \in {"txt", "csv", "pdf"}}
    \cup {f \in [type : {"pdf"}, openable : {TRUE}, parts : PageSeqs, badPage : 0..MaxPages] :
        f.badPage <= Len(f.parts)}
    \cup {[type |-> "other", openable |-> TRUE, parts |-> <<>>, badPage |-> 0]}

\* what a call that may raise gives back
Returned(v) == [raised |-> FALSE, value |-> v]
Raised == [raised |-> TRUE]

\* the pdf loop that on a failing page hands back the pages read so far
RECURSIVE ReadPages_KeepsPartial(_, _, _)
ReadPages_KeepsPartial(f, page_num, content) ==
    IF page_num > Len(f.parts) \/ page_num = f.badPage THEN Returned(content)
    ELSE ReadPages_KeepsPartial(f, page_num + 1, content \o f.parts[page_num])

\* for page_num in range(page_count): content += load_page(page_num).get_text()
RECURSIVE ReadPages(_, _, _)
ReadPages(f, page_num, content) ==
    IF page_num > Len(f.parts) THEN Returned(content)
    ELSE IF page_num = f.badPage THEN Raised
    ELSE ReadPages(f, page_num + 1, content \o f.parts[page_num])

process_file(f) ==
    CASE f.type \in {"txt", "csv"} ->
            IF f.openable THEN Returned(f.parts[1]) ELSE Raised
      [] f.type = "pdf" ->
            IF f.openable THEN ReadPages(f, 1, <<>>) ELSE Raised
      [] OTHER -> Returned(<<>>)

\* ------------------------------------------------------- result formatting
VaderLines(m) ==
    << [line |-> "Overall Sentiment (VADER)", label |-> OverallSentiment(m)],
       [line |-> "Scores", scores |-> m] >>

VaderErrorLine == << [line |-> "Error analyzing sentiment with VADER."] >>

TextBlobLines(p, s) ==
    << [line |-> "Overall Sentiment (TextBlob)", label |-> TextBlobLabel(p)],
       [line |-> "Polarity", value |-> p],
       [line |-> "Subjectivity", value |-> s] >>

TextBlobErrorLine == << [line |-> "Error analyzing sentiment with TextBlob."] >>

\* text_entry.toPlainText().strip() or file_content, but preferring the file
AnalysisText_PreferFile(entry, fc) == IF fc # <<>> THEN fc ELSE Strip(entry)

\* text_entry.toPlainText().strip() or file_content
AnalysisText(entry, fc) == IF Strip(entry) # <<>> THEN Strip(entry) ELSE fc

\* a guard that takes "" for a result to save (is not None)
HasResults_NotNone(r) == TRUE

\* if self.results:
HasResults(r) == r # <<>>

\* a guard that never rejects
NoInput_Never(text) == FALSE

\* if not text:
NoInput(text) == text = <<>>

\* the five bar heights handed to ax.bar
PlotData(vs, p, s) ==
    << Float(vs.get["pos"]), Float(vs.get["neu"]), Float(vs.get["neg"]), p, s >>

\* ------------------------------------------------------------------ state
VARIABLES
    results,          \* self.results: the formatted result text, <<>> for ""
    vader_scores,     \* self.vader_scores
    polarity,         \* self.polarity
    subjectivity,     \* self.subjectivity
    file_content,     \* self.file_content
    text_entry,       \* the QTextEdit's text
    result_label,     \* the QLabel's text
    chart,            \* the bars on the visualizer's axes, <<>> when cleared
    running,          \* FALSE once an exception leaving a slot has ended the process
    lastOp,           \* the handler that ran last and how it ended
    picked,           \* the file the last upload dialog gave: "" none, "sound" or "corrupt"
    notice,           \* the title of the message box the last handler showed, "" for none
    written,          \* what the last handler wrote to the chosen file: <<>> or <<text>>
    scored,           \* the scorer calls the last handler made, in order
    analysed,         \* history: an analysis has stored its record since the last clear
    request_recorded, \* history: the held record is that of the latest analysis request
    last_upload       \* history: the text of the latest successful upload since the last clear

fields == <<results, vader_scores, polarity, subjectivity, file_content>>
widgets == <<text_entry, result_label, chart>>
history == <<analysed, request_recorded, last_upload>>
vars == <<results, vader_scores, polarity, subjectivity, file_content, text_entry,
          result_label, chart, running, lastOp, picked, notice, written, scored,
          analysed, request_recorded, last_upload>>

NoFile == ""
Op(op, outcome) == [op |-> op, outcome |-> outcome]

\* __init__ and initUI, with `entry` already typed into the text box
InitWith(entry) ==
    /\ results = <<>>
    /\ vader_scores = None
    /\ polarity = None
    /\ subjectivity = None
    /\ file_content = <<>>
    /\ text_entry = entry
    /\ result_label = <<>>
    /\ chart = <<>>
    /\ running = TRUE
    /\ lastOp = Op("init", "done")
    /\ picked = NoFile
    /\ notice = ""
    /\ written = <<>>
    /\ scored = <<>>
    /\ analysed = FALSE
    /\ request_recorded = TRUE
    /\ last_upload = <<>>

Init == InitWith(<<>>)

\* an exception leaves the slot: PyQt either aborts the process (qFatal) or,
\* with an excepthook installed or before PyQt 5.5, reports it and goes on
SlotRaised == running' \in BOOLEAN

\* the user edits the text box
EditText ==
    /\ running
    /\ \E t \in Texts : text_entry' = t
    /\ lastOp' = Op("edit", "done")
    /\ picked' = NoFile /\ notice' = "" /\ written' = <<>> /\ scored' = <<>>
    /\ UNCHANGED <<fields, result_label, chart, running, history>>

Call(scorer, text, lib) == [scorer |-> scorer, text |-> text, failed |-> lib.raises]

\* lines 115-137 for a non-empty text, given what the two libraries answer
Analyse(text, v, t) ==
    LET vs == analyze_sentiment_vader(v)
    IN  IF Truthy(vs) /\ vs.kind # "dict"
        THEN \* line 118: a tuple has no attribute get
             /\ vader_scores' = vs
             /\ SlotRaised
             /\ lastOp' = Op("analyze", "raised in max")
             /\ scored' = <<Call("vader", text, v)>>
             /\ request_recorded' = FALSE
             /\ UNCHANGED <<results, polarity, subjectivity, file_content, widgets,
                            analysed, last_upload>>
        ELSE LET vader_text == IF Truthy(vs) THEN VaderLines(vs.get) ELSE VaderErrorLine
                 tb == analyze_sentiment_textblob(t)
                 result_text ==
                     vader_text \o (IF tb[1] # None
                                    THEN TextBlobLines(tb[1].num, tb[2].num)
                                    ELSE TextBlobErrorLine)
                 drawable == vs.kind = "dict" /\ IsNumber(tb[1]) /\ IsNumber(tb[2])
             IN  /\ vader_scores' = vs
                 /\ polarity' = tb[1]
                 /\ subjectivity' = tb[2]
                 /\ results' = result_text
                 /\ result_label' = result_text
                 /\ scored' = <<Call("vader", text, v), Call("textblob", text, t)>>
                 /\ analysed' = TRUE
                 /\ request_recorded' = TRUE
                 /\ \/ \* plot draws the five bars
                       /\ drawable
                       /\ chart' = PlotData(vs, tb[1], tb[2])
                       /\ lastOp' = Op("analyze", "done")
                       /\ UNCHANGED running
                    \/ \* plot raises after ax.clear(): vader_scores is not a dict
                       \* (line 54), or ax.bar is handed the None and the str of a
                       \* failed TextBlob call as bar heights (TypeError, line 57)
                       /\ ~drawable
                       /\ chart' = <<>>
                       /\ lastOp' = Op("analyze", "raised in plot")
                       /\ SlotRaised
                 /\ UNCHANGED <<file_content, text_entry, last_upload>>

perform_analysis(vaderLib, textblobLib) ==
    /\ running
    /\ picked' = NoFile /\ written' = <<>>
    /\ LET text == AnalysisText(text_entry, file_content)
       IN  \/ /\ NoInput(text)
              /\ notice' = "Input Error"
              /\ lastOp' = Op("analyze", "warned")
              /\ scored' = <<>>
              /\ UNCHANGED <<fields, widgets, running, history>>
           \/ /\ ~NoInput(text)
              /\ notice' = ""
              /\ \E v \in vaderLib :
                   \E t \in (IF v.raises THEN {v} ELSE textblobLib) : Analyse(text, v, t)

clear_text ==
    /\ running
    /\ text_entry' = <<>>
    /\ result_label' = <<>>
    /\ results' = <<>>
    /\ vader_scores' = None
    /\ polarity' = None
    /\ subjectivity' = None
    /\ file_content' = <<>>
    /\ chart' = <<>>
    /\ lastOp' = Op("clear", "done")
    /\ picked' = NoFile /\ notice' = "" /\ written' = <<>> /\ scored' = <<>>
    /\ analysed' = FALSE /\ request_recorded' = TRUE /\ last_upload' = <<>>
    /\ UNCHANGED running

\* an extraction that cannot succeed: the file does not open, or a page does not load
Corrupt(f) == ~f.openable \/ f.badPage # 0

upload_file ==
    /\ running
    /\ notice' = "" /\ written' = <<>> /\ scored' = <<>>
    /\ \/ \* the dialog is cancelled: file_path is ""
          /\ lastOp' = Op("upload", "cancelled")
          /\ picked' = NoFile
          /\ UNCHANGED <<fields, widgets, running, history>>
       \/ \E f \in Files :
            LET got == process_file(f)
            IN  /\ picked' = (IF Corrupt(f) THEN "corrupt" ELSE "sound")
                /\ IF got.raised
                   THEN /\ lastOp' = Op("upload", "raised")
                        /\ SlotRaised
                        /\ UNCHANGED <<fields, widgets, history>>
                   ELSE /\ file_content' = got.value
                        /\ text_entry' = got.value
                        /\ last_upload' = got.value
                        /\ lastOp' = Op("upload", "loaded")
                        /\ UNCHANGED <<results, vader_scores, polarity, subjectivity,
                                       result_label, chart, running, analysed,
                                       request_recorded>>

save_results ==
    /\ running
    /\ picked' = NoFile /\ scored' = <<>>
    /\ UNCHANGED <<fields, widgets, history>>
    /\ \/ /\ HasResults(results)
          /\ \/ \* a path is chosen and the file is written
                /\ written' = <<results>>
                /\ notice' = "Save Results"
                /\ lastOp' = Op("save", "saved")
                /\ UNCHANGED running
             \/ \* a path is chosen and open() raises
                /\ written' = <<>>
                /\ notice' = ""
                /\ lastOp' = Op("save", "raised")
                /\ SlotRaised
             \/ \* the dialog is cancelled
                /\ written' = <<>>
                /\ notice' = ""
                /\ lastOp' = Op("save", "cancelled")
                /\ UNCHANGED running
       \/ /\ ~HasResults(results)
          /\ written' = <<>>
          /\ notice' = "No Results"
          /\ lastOp' = Op("save", "refused")
          /\ UNCHANGED running

\* ---------------------------------------------------------- specifications
\* the window: VADER answers at the coarsest resolution, TextBlob with 0.0 or an error
WindowVader == VaderLib(1)
WindowTextBlob == TextBlobLib(0)

Analyze == perform_analysis(WindowVader, WindowTextBlob)

Next == EditText \/ Analyze \/ clear_text \/ upload_file \/ save_results

Spec == Init /\ [][Next]_vars

\* the scoring path alone: a short text in the box, the libraries answer at full resolution
ScoreVader == VaderLib(ScoreScale)
ScoreTextBlob == TextBlobLib(PolarityScale)

AnalyzeScores == perform_analysis(ScoreVader, ScoreTextBlob)

InitScore == \E entry \in TextsUpTo(1) : InitWith(entry)

NextScore == AnalyzeScores \/ clear_text

SpecScore == InitScore /\ [][NextScore]_vars

\* ------------------------------------------------------------------ claims
\* every character is whitespace
Blank(s) == \A i \in 1..Len(s) : s[i] \in Whitespace

\* t is s without its leading and trailing whitespace
IsStripOf(t, s) ==
    \E i \in 1..(Len(s) + 1) : \E j \in 0..Len(s) :
        /\ t = SubSeq(s, i, j)
        /\ \A n \in 1..Len(s) : (n < i \/ n > j) => s[n] \in Whitespace
        /\ t # <<>> => (t[1] \notin Whitespace /\ t[Len(t)] \notin Whitespace)

\* the lines of the held result text that start with `name`
Lines(name) == {results[i] : i \in {n \in 1..Len(results) : results[n].line = name}}

\* the scorers other than `scorer`
Other(scorer) == IF scorer = "vader" THEN "textblob" ELSE "vader"

ErrorLineOf(scorer) ==
    IF scorer = "vader" THEN "Error analyzing sentiment with VADER."
    ELSE "Error analyzing sentiment with TextBlob."

OutputLineOf(scorer) ==
    IF scorer = "vader" THEN "Overall Sentiment (VADER)" ELSE "Overall Sentiment (TextBlob)"

\* the largest of the four scores of m
MaxScore(m) == CHOOSE x \in {m[k] : k \in KeySet} : \A k \in KeySet : m[k] <= x

\* two or more scores of m are the largest
Tied(m) == Cardinality({k \in KeySet : m[k] = MaxScore(m)}) >= 2

\* the first key, in `order`, whose score is the largest
FirstLargest(order, m) ==
    order[CHOOSE i \in 1..Len(order) :
              /\ m[order[i]] = MaxScore(m)
              /\ \A j \in 1..(i - 1) : m[order[j]] < MaxScore(m)]

\* the held result text pairs each VADER label with the scores printed under it
HeldVader == {<<l.label, sc.scores>> : l \in Lines("Overall Sentiment (VADER)"),
                                        sc \in Lines("Scores")}

\* C1: in an analysis where one scorer's call failed and the other's did not,
\* the other scorer was run too, the handler returned without raising, and the
\* stored result text holds the failed scorer's error line and the other's output.
C1_PartialFailureReported ==
    lastOp.op = "analyze" =>
        \A i \in 1..Len(scored) :
            (scored[i].failed /\ \A j \in 1..Len(scored) : j # i => ~scored[j].failed) =>
                /\ \E j \in 1..Len(scored) : scored[j].scorer = Other(scored[i].scorer)
                /\ lastOp.outcome = "done"
                /\ Lines(ErrorLineOf(scored[i].scorer)) # {}
                /\ Lines(OutputLineOf(Other(scored[i].scorer))) # {}

\* C2: a save step writes a file only if an analysis has stored its record since
\* startup and since the last clear; without one it shows the "No Results"
\* notice, writes nothing and leaves the fields and widgets as they were.
C2_SaveOnlyAfterAnalysis ==
    [][lastOp'.op = "save" =>
          /\ written' # <<>> => analysed
          /\ ~analysed => /\ notice' = "No Results"
                          /\ written' = <<>>
                          /\ UNCHANGED <<fields, widgets, running>>]_vars

\* C2 witness: a save refused with the notice while no analysis has stored a record
C2_Witness ==
    /\ lastOp = Op("save", "refused")
    /\ notice = "No Results"
    /\ ~analysed
    /\ written = <<>>

\* C3: the VADER overall label of a held result is one of pos, neu, neg, and
\* its score is the largest of the pos, neu and neg scores.
C3_OverallAmongThree ==
    \A h \in HeldVader :
        /\ h[1] \in {"pos", "neu", "neg"}
        /\ \A k \in {"pos", "neu", "neg"} : h[2][k] <= h[2][h[1]]

\* C4 as stated: when scores tie for the largest, the overall label is the tied
\* key that comes first in the order pos, neu, neg, compound.
C4_TieOrderPosFirst ==
    \A h \in HeldVader :
        Tied(h[2]) => h[1] = FirstLargest(<<"pos", "neu", "neg", "compound">>, h[2])

\* C4 as amended: when scores tie for the largest, the overall label is the tied
\* key that comes first in the order neg, neu, pos, compound.
C4_TieOrderNegFirst ==
    \A h \in HeldVader :
        Tied(h[2]) => h[1] = FirstLargest(<<"neg", "neu", "pos", "compound">>, h[2])

\* C4 witness: neg and pos tie for the largest score and the label is neg
C4_Witness ==
    \E h \in HeldVader :
        /\ h[2]["neg"] = h[2]["pos"]
        /\ h[2]["neg"] = MaxScore(h[2])
        /\ h[2]["neg"] > h[2]["neu"]
        /\ h[1] = "neg"

\* C5: when TextBlob answered with polarity p, the TextBlob label of the held
\* result is Positive for p > 0, Negative for p < 0 and Neutral for p = 0.
C5_TextBlobLabelBySign ==
    IsNumber(polarity) =>
        /\ Lines("Overall Sentiment (TextBlob)") # {}
        /\ \A l \in Lines("Overall Sentiment (TextBlob)") :
              /\ polarity.num > 0 => l.label = "Positive"
              /\ polarity.num < 0 => l.label = "Negative"
              /\ polarity.num = 0 => l.label = "Neutral"

\* C5 witness: TextBlob answered polarity 0 and the held label is Neutral
C5_Witness ==
    /\ lastOp = Op("analyze", "done")
    /\ polarity = Float(0)
    /\ \E l \in Lines("Overall Sentiment (TextBlob)") : l.label = "Neutral"

\* C6: an upload of a file whose extraction fails leaves file_content, the
\* text entry, the held results and the scores as they were.
C6_FailedUploadKeepsState ==
    [][(lastOp'.op = "upload" /\ picked' = "corrupt") => UNCHANGED <<fields, widgets>>]_vars

\* C6 witness: a corrupt file was picked, the slot raised, the earlier upload and result are held
C6_Witness ==
    /\ lastOp = Op("upload", "raised")
    /\ picked = "corrupt"
    /\ file_content # <<>>
    /\ results # <<>>

\* C7: what save_results writes is the result text of the latest analysis
\* request made since the last clear.
C7_SavesLatestRequest ==
    written # <<>> => (written = <<results>> /\ request_recorded)

\* C8: polarity is None or a number in [-1,1], subjectivity is None or a number
\* in [0,1], vader_scores is None or a mapping over the four keys.
C8_FieldsAbsentOrScores ==
    /\ polarity = None
       \/ (IsNumber(polarity) /\ polarity.num \in -PolarityScale..PolarityScale)
    /\ subjectivity = None
       \/ (IsNumber(subjectivity) /\ subjectivity.num \in 0..PolarityScale)
    /\ vader_scores = None
       \/ (vader_scores.kind = "dict" /\ DOMAIN vader_scores.get = KeySet)

\* C9: an analysis step never calls a scorer with the empty text, and when the
\* entry is blank and file_content is empty it shows the input warning, calls
\* no scorer and leaves the fields and the result label as they were.
C9_NoScoringOfEmptyText ==
    [][lastOp'.op = "analyze" =>
          /\ \A i \in 1..Len(scored') : scored'[i].text # <<>>
          /\ (Blank(text_entry) /\ file_content = <<>>) =>
                /\ notice' = "Input Error"
                /\ scored' = <<>>
                /\ UNCHANGED <<fields, result_label>>]_vars

\* C9 witness: an analysis warned about empty input while a result is held and shown
C9_Witness ==
    /\ lastOp = Op("analyze", "warned")
    /\ notice = "Input Error"
    /\ results # <<>>
    /\ result_label = results

\* C10: the text an analysis hands to the scorers is the stripped entry when
\* that is not empty, and otherwise the text of the latest successful upload
\* since the last clear.
C10_ScoredText ==
    lastOp.op = "analyze" =>
        \A i \in 1..Len(scored) :
            IF ~Blank(text_entry)
            THEN IsStripOf(scored[i].text, text_entry)
            ELSE scored[i].text = last_upload

\* C10 witness: the entry was emptied after an upload and both scorers got the uploaded text
C10_Witness ==
    /\ lastOp.op = "analyze"
    /\ Len(scored) = 2
    /\ text_entry = <<>>
    /\ ~Blank(last_upload)
    /\ scored[1].text = last_upload

====
